---- MODULE Spec2Model ----
(***************************************************************************)
(* Document storage service (app/main.py, app/models.py).                  *)
(*                                                                         *)
(* The metadata store holds two tables, files and analysis; the storage    *)
(* directory maps a path string to the bytes last written there.  Request  *)
(* handlers run concurrently: upload_file is a coroutine that is suspended *)
(* once, at "await file.read()", between reading the maximum version and   *)
(* writing the blob and the row; analyze_file is a plain function that the *)
(* framework runs in a worker thread with its own session, so its lookup   *)
(* of the existing Analysis row and its commit are separate steps.         *)
(* Requests carry no identity: the suspended handlers are kept as bags of  *)
(* their local variables.                                                  *)
(***************************************************************************)
EXTENDS Integers, Sequences, FiniteSets, Bags, TLC

\* ---------------------------------------------------------------- bounds
\* handlers suspended at the same time
MaxInFlight == 2
\* upload and analyze requests admitted in one run
MaxRequests == 3

\* ------------------------------------------------------- program constants
\* mock_ai_analysis thresholds
SmallLimit == 10000
RelSmallLimit == 100000
MediumLimit == 1000000

STORAGE_DIR == "./storage"

\* HTTPException details: the three distinct messages of main.py
NoFileSelected == "no_file_selected"
FileNotFound == "file_not_found"
AnalysisNotFound == "analysis_not_found_run_analyze_first"

\* ------------------------------------------------------------------ inputs
\* Filenames a client may send; "" is the absent filename.
Names == {"a", "a_v1"}
Filenames == Names \cup {""}

\* A request body is modelled as a run of len copies of one byte.
Content(fill, len) == [fill |-> fill, len |-> len]
Contents == {Content("x", 1500), Content("y", 10000)}
BoundarySizes == {0, 9999, 10000, 99999, 100000, 999999, 1000000}
BoundaryContents == {Content("x", n) : n \in BoundarySizes}

NoContent == Content("", 0)

\* len(contents)
ByteLen(c) == c.len

\* Ids a row of either table can have.
Ids == 1..(MaxRequests + 1)

VARIABLES
    files,      \* table "files": sequence of rows in insertion order
    analyses,   \* table "analysis": sequence of rows in insertion order
    disk,       \* storage directory: the set of <<path, bytes>> it holds
    now,        \* the latest reading of datetime.utcnow()
    uploads,    \* bag of upload_file locals, one per handler at the await
    analyzing,  \* bag of analyze_file locals, one per handler before its commit
    resp,       \* the response produced by the latest handler step
    analyzed,   \* history: file id -> result of the latest committed analyze
    admitted,   \* history: number of upload and analyze requests admitted
    origin      \* history: file id -> the body sent by the upload that made the row

vars == <<files, analyses, disk, now, uploads, analyzing, resp, analyzed, admitted, origin>>

\* --------------------------------------------------------------- helpers
Range(s) == {s[i] : i \in 1..Len(s)}

MaxOf(S) == CHOOSE m \in S : \A x \in S : x <= m

\* INTEGER PRIMARY KEY: largest id in the table plus one
NextId(table) == IF Len(table) = 0 THEN 1 ELSE MaxOf({r.id : r \in Range(table)}) + 1

\* db.query(FileModel).filter(FileModel.id == file_id)
FileById(fid) == {f \in Range(files) : f.id = fid}

\* db.query(Analysis).filter(Analysis.file_id == file_id)
AnalysesOf(fid) == {a \in Range(analyses) : a.file_id = fid}

\* Mutant of NextVersion: the increment is forgotten.
NextVersionNoIncrement(name) ==
    LET same == {f \in Range(files) : f.original_name = name}
    IN  IF same = {} THEN 1 ELSE MaxOf({f.version : f \in same})

\* db.query(FileModel).filter(original_name == name).order_by(version.desc()).first()
\* version = existing.version + 1 if existing else 1
NextVersion(name) ==
    LET same == {f \in Range(files) : f.original_name = name}
    IN  IF same = {} THEN 1 ELSE MaxOf({f.version : f \in same}) + 1

\* os.path.join(STORAGE_DIR, f"{file.filename}_v{version}")
PathOf(name, version) == STORAGE_DIR \o "/" \o name \o "_v" \o ToString(version)

\* open(filepath, "wb"); f.write(contents): creates or truncates
WriteBlob(d, path, bytes) == {e \in d : e[1] # path} \cup {<<path, bytes>>}

BlobAt(path) == {e[2] : e \in {x \in disk : x[1] = path}}

Template(kind, name, size, version) ==
    [template |-> kind, file_name |-> name, file_size |-> size, version |-> version]

NoResult == Template("", "", 0, 0)

\* Mutant of mock_ai_analysis: the bounds are closed on the upper side.
mock_ai_analysis_open(file_name, file_size, version) ==
    IF file_size <= SmallLimit THEN Template("small", file_name, file_size, version)
    ELSE IF file_size <= RelSmallLimit THEN Template("relatively_small", file_name, file_size, 0)
    ELSE IF file_size <= MediumLimit THEN Template("medium", file_name, file_size, version)
    ELSE Template("large", file_name, file_size, version)

\* The "relatively small" message does not mention the version.
mock_ai_analysis(file_name, file_size, version) ==
    IF file_size < SmallLimit THEN Template("small", file_name, file_size, version)
    ELSE IF file_size < RelSmallLimit THEN Template("relatively_small", file_name, file_size, 0)
    ELSE IF file_size < MediumLimit THEN Template("medium", file_name, file_size, version)
    ELSE Template("large", file_name, file_size, version)

NoResp ==
    [op |-> "", status |-> 0, detail |-> "", file_id |-> 0, analysis_id |-> 0,
     file_name |-> "", version |-> 0, size |-> 0, uploaded_at |-> 0,
     result |-> NoResult, list |-> <<>>]

Reply(op, status, detail) == [NoResp EXCEPT !.op = op, !.status = status, !.detail = detail]

Init ==
    /\ files = <<>>
    /\ analyses = <<>>
    /\ disk = {}
    /\ now = 0
    /\ uploads = EmptyBag
    /\ analyzing = EmptyBag
    /\ resp = NoResp
    /\ analyzed = [i \in Ids |-> NoResult]
    /\ admitted = 0
    /\ origin = [i \in Ids |-> NoContent]

\* Path ids a client may send: the id of every row, and one id no row has.
RequestIds == {f.id : f \in Range(files)} \cup {NextId(files)}

InFlight == BagCardinality(uploads) + BagCardinality(analyzing)

\* The run may take one more upload or analyze request.
Admit ==
    /\ InFlight < MaxInFlight
    /\ admitted < MaxRequests
    /\ admitted' = admitted + 1

\* Mutant of upload_file_begin: the filename check is missing.
upload_file_begin_unchecked(filename, contents) ==
    /\ Admit
    /\ uploads' = uploads (+) SetToBag({
           [name |-> filename,
            version |-> NextVersion(filename),
            path |-> PathOf(filename, NextVersion(filename)),
            contents |-> contents]})
    /\ resp' = NoResp
    /\ UNCHANGED <<files, analyses, disk, now, analyzing, analyzed, origin>>

\* ------------------------------------------------------------ upload_file
\* Lines 69-87: the filename check, the version lookup and the path, up to the
\* suspension at "await file.read()".
upload_file_begin(filename, contents) ==
    IF filename = ""
    THEN /\ resp' = Reply("upload", 400, NoFileSelected)
         /\ UNCHANGED <<files, analyses, disk, now, uploads, analyzing, analyzed, admitted, origin>>
    ELSE /\ Admit
         /\ uploads' = uploads (+) SetToBag({
                [name |-> filename,
                 version |-> NextVersion(filename),
                 path |-> PathOf(filename, NextVersion(filename)),
                 contents |-> contents]})
         /\ resp' = NoResp
         /\ UNCHANGED <<files, analyses, disk, now, analyzing, analyzed, origin>>

\* FileModel(original_name, version, path, size, uploaded_by=1); the INSERT
\* fills in id and uploaded_at (default=datetime.utcnow, read as t).
NewFile(u, t) ==
    [id |-> NextId(files),
     original_name |-> u.name,
     version |-> u.version,
     path |-> u.path,
     size |-> ByteLen(u.contents),
     uploaded_by |-> 1,
     uploaded_at |-> t]

\* Mutant of upload_file_commit: a unique (original_name, version) constraint
\* rejects the second row.
upload_file_commit_unique(u) ==
    /\ BagIn(u, uploads)
    /\ IF \E f \in Range(files) : f.original_name = u.name /\ f.version = u.version
       THEN /\ resp' = Reply("upload", 500, "")
            /\ UNCHANGED <<files, now, origin>>
       ELSE \E t \in (IF files = <<>> THEN {now + 1} ELSE {now, now + 1}) :
              /\ now' = t
              /\ files' = Append(files, NewFile(u, t))
              /\ origin' = [origin EXCEPT ![NextId(files)] = u.contents]
              /\ resp' = [Reply("upload", 200, "") EXCEPT
                              !.file_id = NewFile(u, t).id,
                              !.file_name = u.name,
                              !.version = u.version,
                              !.size = ByteLen(u.contents),
                              !.uploaded_at = t]
    /\ disk' = WriteBlob(disk, u.path, u.contents)
    /\ uploads' = uploads (-) SetToBag({u})
    /\ UNCHANGED <<analyses, analyzing, analyzed, admitted>>

\* Lines 88-113: write the blob, insert the row, commit, respond.  No await
\* separates these statements.  The clock read by the INSERT has either not
\* advanced since the previous INSERT read it or has; it has advanced since
\* start-up.
upload_file_commit(u) ==
    /\ BagIn(u, uploads)
    /\ \E t \in (IF files = <<>> THEN {now + 1} ELSE {now, now + 1}) :
         /\ now' = t
         /\ files' = Append(files, NewFile(u, t))
         /\ resp' = [Reply("upload", 200, "") EXCEPT
                         !.file_id = NewFile(u, t).id,
                         !.file_name = u.name,
                         !.version = u.version,
                         !.size = ByteLen(u.contents),
                         !.uploaded_at = t]
    /\ disk' = WriteBlob(disk, u.path, u.contents)
    /\ uploads' = uploads (-) SetToBag({u})
    /\ origin' = [origin EXCEPT ![NextId(files)] = u.contents]
    /\ UNCHANGED <<analyses, analyzing, analyzed, admitted>>

\* -------------------------------------------------------------- get_files
\* Mutant of IsUploadedAtDesc: the order is ascending.
IsUploadedAtAsc(rows) ==
    \A i, j \in 1..Len(rows) : i < j => rows[i].uploaded_at <= rows[j].uploaded_at

\* order_by(FileModel.uploaded_at.desc()): rows with equal uploaded_at come in
\* an order the query does not determine.
IsUploadedAtDesc(rows) ==
    \A i, j \in 1..Len(rows) : i < j => rows[i].uploaded_at >= rows[j].uploaded_at

\* The sequences that hold every row of the table exactly once.
RECURSIVE Arrangements(_)
Arrangements(rows) ==
    IF rows = {} THEN {<<>>}
    ELSE UNION {{<<r>> \o rest : rest \in Arrangements(rows \ {r})} : r \in rows}

Orderings(table) == {r \in Arrangements(Range(table)) : IsUploadedAtDesc(r)}

\* uploaded_at.isoformat()
IsoFormat(t) == "T" \o ToString(t)

FileListItem(f) ==
    [id |-> f.id, file_name |-> f.original_name, version |-> f.version,
     size |-> f.size, uploaded_at |-> IsoFormat(f.uploaded_at)]

get_files ==
    /\ \E rows \in Orderings(files) :
          resp' = [Reply("list", 200, "") EXCEPT
                       !.list = [i \in 1..Len(rows) |-> FileListItem(rows[i])]]
    /\ UNCHANGED <<files, analyses, disk, now, uploads, analyzing, analyzed, admitted, origin>>

\* Mutant of analyze_file_lookup: the file is not checked to exist.
analyze_file_lookup_unchecked(file_id) ==
    LET found == IF AnalysesOf(file_id) = {} THEN {0}
                 ELSE {a.id : a \in AnalysesOf(file_id)}
        result == IF FileById(file_id) = {} THEN NoResult
                  ELSE LET file_db == CHOOSE f \in FileById(file_id) : TRUE
                       IN  mock_ai_analysis(file_db.original_name, file_db.size,
                                            file_db.version)
    IN  /\ Admit
        /\ \E existing \in found :
              analyzing' = analyzing (+) SetToBag({
                  [file_id |-> file_id, existing |-> existing, result |-> result]})
        /\ resp' = NoResp
        /\ UNCHANGED <<files, analyses, disk, now, uploads, analyzed, origin>>

\* ----------------------------------------------------------- analyze_file
\* Lines 139-153: look the file up, look the existing analysis up, compute.
\* first() on several rows of one file_id returns one of them.
analyze_file_lookup(file_id) ==
    IF FileById(file_id) = {}
    THEN /\ resp' = [Reply("analyze", 404, FileNotFound) EXCEPT !.file_id = file_id]
         /\ UNCHANGED <<files, analyses, disk, now, uploads, analyzing, analyzed, admitted, origin>>
    ELSE LET file_db == CHOOSE f \in FileById(file_id) : TRUE
             found == IF AnalysesOf(file_id) = {} THEN {0}
                      ELSE {a.id : a \in AnalysesOf(file_id)}
         IN  /\ Admit
             /\ \E existing \in found :
                   analyzing' = analyzing (+) SetToBag({
                       [file_id |-> file_id,
                        existing |-> existing,
                        result |-> mock_ai_analysis(file_db.original_name,
                                                    file_db.size,
                                                    file_db.version)]})
             /\ resp' = NoResp
             /\ UNCHANGED <<files, analyses, disk, now, uploads, analyzed, origin>>

\* Mutant of analyze_file_commit: a new row is inserted every time.
analyze_file_commit_insert(a) ==
    /\ BagIn(a, analyzing)
    /\ analyses' = Append(analyses,
                          [id |-> NextId(analyses),
                           file_id |-> a.file_id,
                           result |-> a.result])
    /\ resp' = [Reply("analyze", 200, "") EXCEPT
                    !.file_id = a.file_id,
                    !.analysis_id = NextId(analyses),
                    !.result = a.result]
    /\ analyzed' = [analyzed EXCEPT ![a.file_id] = a.result]
    /\ analyzing' = analyzing (-) SetToBag({a})
    /\ UNCHANGED <<files, disk, now, uploads, admitted, origin>>

\* Lines 155-179: update the row found by the lookup, or insert a new one.
analyze_file_commit(a) ==
    /\ BagIn(a, analyzing)
    /\ IF a.existing # 0
       THEN /\ analyses' = [i \in 1..Len(analyses) |->
                               IF analyses[i].id = a.existing
                               THEN [analyses[i] EXCEPT !.result = a.result]
                               ELSE analyses[i]]
            /\ resp' = [Reply("analyze", 200, "") EXCEPT
                            !.file_id = a.file_id,
                            !.analysis_id = a.existing,
                            !.result = a.result]
       ELSE /\ analyses' = Append(analyses,
                                  [id |-> NextId(analyses),
                                   file_id |-> a.file_id,
                                   result |-> a.result])
            /\ resp' = [Reply("analyze", 200, "") EXCEPT
                            !.file_id = a.file_id,
                            !.analysis_id = NextId(analyses),
                            !.result = a.result]
    /\ analyzed' = [analyzed EXCEPT ![a.file_id] = a.result]
    /\ analyzing' = analyzing (-) SetToBag({a})
    /\ UNCHANGED <<files, disk, now, uploads, admitted, origin>>

\* Mutant of get_analysis: a missing analysis gets the generic message.
get_analysis_generic(file_id) ==
    /\ IF FileById(file_id) = {} \/ AnalysesOf(file_id) = {}
       THEN resp' = [Reply("get_analysis", 404, FileNotFound) EXCEPT !.file_id = file_id]
       ELSE LET file_db == CHOOSE f \in FileById(file_id) : TRUE
            IN  \E analysis \in AnalysesOf(file_id) :
                   resp' = [Reply("get_analysis", 200, "") EXCEPT
                                !.file_id = file_id,
                                !.file_name = file_db.original_name,
                                !.version = file_db.version,
                                !.result = analysis.result]
    /\ UNCHANGED <<files, analyses, disk, now, uploads, analyzing, analyzed, admitted, origin>>

\* ----------------------------------------------------------- get_analysis
get_analysis(file_id) ==
    /\ IF FileById(file_id) = {}
       THEN resp' = [Reply("get_analysis", 404, FileNotFound) EXCEPT !.file_id = file_id]
       ELSE IF AnalysesOf(file_id) = {}
       THEN resp' = [Reply("get_analysis", 404, AnalysisNotFound) EXCEPT !.file_id = file_id]
       ELSE LET file_db == CHOOSE f \in FileById(file_id) : TRUE
            IN  \E analysis \in AnalysesOf(file_id) :
                   resp' = [Reply("get_analysis", 200, "") EXCEPT
                                !.file_id = file_id,
                                !.file_name = file_db.original_name,
                                !.version = file_db.version,
                                !.result = analysis.result]
    /\ UNCHANGED <<files, analyses, disk, now, uploads, analyzing, analyzed, admitted, origin>>

\* ---------------------------------------------------------- get_file_info
get_file_info(file_id) ==
    /\ IF FileById(file_id) = {}
       THEN resp' = [Reply("get_file_info", 404, FileNotFound) EXCEPT !.file_id = file_id]
       ELSE LET file_db == CHOOSE f \in FileById(file_id) : TRUE
            IN  resp' = [Reply("get_file_info", 200, "") EXCEPT
                             !.file_id = file_db.id,
                             !.file_name = file_db.original_name,
                             !.version = file_db.version,
                             !.size = file_db.size,
                             !.uploaded_at = file_db.uploaded_at]
    /\ UNCHANGED <<files, analyses, disk, now, uploads, analyzing, analyzed, admitted, origin>>

\* ------------------------------------------------------------ the service
Next ==
    \/ \E n \in Filenames, c \in Contents : upload_file_begin(n, c)
    \/ \E u \in BagToSet(uploads) : upload_file_commit(u)
    \/ get_files
    \/ \E i \in RequestIds : analyze_file_lookup(i)
    \/ \E a \in BagToSet(analyzing) : analyze_file_commit(a)
    \/ \E i \in RequestIds : get_analysis(i)
    \/ \E i \in RequestIds : get_file_info(i)

Spec == Init /\ [][Next]_vars

\* Upload requests handled one at a time: an upload starts only when no other
\* upload is suspended.  Every other request is as free as in Spec.
NextSerialUploads ==
    \/ \E n \in Filenames, c \in Contents :
          uploads = EmptyBag /\ upload_file_begin(n, c)
    \/ \E u \in BagToSet(uploads) : upload_file_commit(u)
    \/ get_files
    \/ \E i \in RequestIds : analyze_file_lookup(i)
    \/ \E a \in BagToSet(analyzing) : analyze_file_commit(a)
    \/ \E i \in RequestIds : get_analysis(i)
    \/ \E i \in RequestIds : get_file_info(i)

SpecSerialUploads == Init /\ [][NextSerialUploads]_vars

\* Analyze requests of one file handled one after the other: an analyze of a
\* file starts only when no other analyze of that file is between its lookup
\* and its commit.  Analyzes of different files, and every other request, are
\* as free as in Spec.
NextSerialAnalyze ==
    \/ \E n \in Filenames, c \in Contents : upload_file_begin(n, c)
    \/ \E u \in BagToSet(uploads) : upload_file_commit(u)
    \/ get_files
    \/ \E i \in RequestIds :
          (\A a \in BagToSet(analyzing) : a.file_id # i) /\ analyze_file_lookup(i)
    \/ \E a \in BagToSet(analyzing) : analyze_file_commit(a)
    \/ \E i \in RequestIds : get_analysis(i)
    \/ \E i \in RequestIds : get_file_info(i)

SpecSerialAnalyze == Init /\ [][NextSerialAnalyze]_vars

\* The store after k uploads of one name with one body, handled one after the
\* other, the clock advancing between them.
StoreAfter(name, contents, k) ==
    [i \in 1..k |->
        [id |-> i,
         original_name |-> name,
         version |-> i,
         path |-> PathOf(name, i),
         size |-> ByteLen(contents),
         uploaded_by |-> 1,
         uploaded_at |-> i]]

\* The analysis function applied to files of every boundary size: the store
\* starts with one or two versions of a file, and is then analyzed.
InitBuckets ==
    \E n \in Names, c \in BoundaryContents, k \in 1..2 :
        /\ files = StoreAfter(n, c, k)
        /\ analyses = <<>>
        /\ disk = {<<PathOf(n, i), c>> : i \in 1..k}
        /\ now = k
        /\ uploads = EmptyBag
        /\ analyzing = EmptyBag
        /\ resp = NoResp
        /\ analyzed = [i \in Ids |-> NoResult]
        /\ admitted = 0
        /\ origin = [i \in Ids |-> IF i <= k THEN c ELSE NoContent]

NextBuckets ==
    \/ \E i \in RequestIds : analyze_file_lookup(i)
    \/ \E a \in BagToSet(analyzing) : analyze_file_commit(a)
    \/ \E i \in RequestIds : get_analysis(i)

SpecBuckets == InitBuckets /\ [][NextBuckets]_vars

\* ------------------------------------------------------------------ claims
TheFile(fid) == CHOOSE f \in FileById(fid) : TRUE

\* The number of rows up to row i that carry row i's name: row i is the
\* NthOfName(i)-th upload of its name.
NthOfName(i) ==
    Cardinality({j \in 1..i : files[j].original_name = files[i].original_name})

\* C1: with uploads handled one at a time, the k-th committed upload of a name
\* has version k: the rows of a name carry versions 1, 2, ..., N in upload
\* order, whatever other requests come in between, and the response of an
\* upload reports that version.
C1_VersionIsUploadCount ==
    /\ \A i \in 1..Len(files) : files[i].id = i /\ files[i].version = NthOfName(i)
    /\ (resp.op = "upload" /\ resp.status = 200) =>
          /\ resp.file_name = files[Len(files)].original_name
          /\ resp.version = NthOfName(Len(files))

\* Two versions of one name with an upload of another name between them.
C1_Witness ==
    /\ Len(files) = 3
    /\ files[1].original_name = files[3].original_name
    /\ files[2].original_name # files[1].original_name
    /\ files[3].version = 2
    /\ resp.op = "upload" /\ resp.status = 200

Started(v) == CopiesIn(v, uploads') > CopiesIn(v, uploads)
Committed(u) == CopiesIn(u, uploads') < CopiesIn(u, uploads)

\* C2: an upload that reads the maximum version of a name while another upload
\* of that name has read it and no row of that version is committed yet
\* computes the same version; and the commit of an upload always inserts its
\* row with the version it computed: nothing rejects or retries the insert,
\* also when a row of that name and version exists.
C2_OverlapSameVersionBothCommit ==
    [][/\ \A u \in BagToSet(uploads) : \A v \in BagToSet(uploads') :
            (/\ v.name = u.name
             /\ Started(v)
             /\ \A f \in Range(files) : f.original_name = u.name => f.version < u.version)
            => v.version = u.version
       /\ \A u \in BagToSet(uploads) :
            Committed(u) =>
               /\ Len(files') = Len(files) + 1
               /\ files'[Len(files')].original_name = u.name
               /\ files'[Len(files')].version = u.version
               /\ resp'.op = "upload" /\ resp'.status = 200 /\ resp'.version = u.version
      ]_vars

\* Two rows of one name and one version, the second just committed.
C2_Witness ==
    /\ resp.op = "upload" /\ resp.status = 200
    /\ \E i, j \in 1..Len(files) :
          /\ i < j
          /\ j = Len(files)
          /\ files[i].original_name = files[j].original_name
          /\ files[i].version = files[j].version

\* C3: in every reachable state there is at most one Analysis row per file_id,
\* for every interleaving of analyze requests.
C3_AtMostOneAnalysisPerFile ==
    \A fid \in Ids : Cardinality(AnalysesOf(fid)) <= 1

AnalyzeCommitted(a) == CopiesIn(a, analyzing') < CopiesIn(a, analyzing)

\* C4: with analyze requests handled one at a time, a file has at most one
\* Analysis row; the first analyze of a file inserts exactly one row, a later
\* one inserts none and overwrites that row's result; every analyze returns the
\* id of the file's one row, which never changes, and the file has exactly one
\* row after each call.
C4_AnalyzeIsUpsert ==
    /\ [](/\ \A fid \in Ids : Cardinality(AnalysesOf(fid)) <= 1
          /\ (resp.op = "analyze" /\ resp.status = 200) =>
                AnalysesOf(resp.file_id) =
                   {[id |-> resp.analysis_id, file_id |-> resp.file_id,
                     result |-> resp.result]})
    /\ [][/\ Len(analyses') >= Len(analyses)
          /\ \A i \in 1..Len(analyses) :
                /\ analyses'[i].id = analyses[i].id
                /\ analyses'[i].file_id = analyses[i].file_id
          /\ \A a \in BagToSet(analyzing) :
                AnalyzeCommitted(a) =>
                   IF AnalysesOf(a.file_id) = {}
                   THEN Len(analyses') = Len(analyses) + 1
                   ELSE /\ Len(analyses') = Len(analyses)
                        /\ \E r \in AnalysesOf(a.file_id) :
                              /\ resp'.analysis_id = r.id
                              /\ [r EXCEPT !.result = a.result] \in Range(analyses')
         ]_vars

\* One file, analyzed twice, one row.
C4_Witness ==
    /\ Len(files) = 1
    /\ admitted = 3
    /\ uploads = EmptyBag /\ analyzing = EmptyBag
    /\ resp.op = "analyze" /\ resp.status = 200
    /\ Len(analyses) = 1

\* C5: get analysis for an existing file answers the "analysis not found, run
\* analyze first" 404 exactly when no analyze of that file has committed; once
\* one has, it succeeds with the result of the latest committed analyze of the
\* file and with the file's name and version.
C5_GetAnalysisAfterAnalyze ==
    (resp.op = "get_analysis" /\ FileById(resp.file_id) # {}) =>
        /\ resp.detail # FileNotFound
        /\ (analyzed[resp.file_id] = NoResult) <=>
              (resp.status = 404 /\ resp.detail = AnalysisNotFound)
        /\ (analyzed[resp.file_id] # NoResult) =>
              /\ resp.status = 200
              /\ resp.result = analyzed[resp.file_id]
              /\ resp.file_name = TheFile(resp.file_id).original_name
              /\ resp.version = TheFile(resp.file_id).version

\* A successful get analysis of the second version of a file.
C5_Witness ==
    /\ resp.op = "get_analysis" /\ resp.status = 200
    /\ resp.version = 2
    /\ resp.result = analyzed[resp.file_id]
    /\ resp.result # NoResult

\* C6: for an id with no File row, analyze, get analysis and get file info
\* answer 404 "file not found"; a step that answers so changes no row and no
\* blob; and no Analysis row, stored or about to be stored, refers to a
\* missing file.
C6_UnknownIdIsNotFound ==
    /\ [](/\ (/\ resp.op \in {"analyze", "get_analysis", "get_file_info"}
              /\ FileById(resp.file_id) = {})
             => (resp.status = 404 /\ resp.detail = FileNotFound)
          /\ \A r \in Range(analyses) : FileById(r.file_id) # {}
          /\ \A a \in BagToSet(analyzing) : FileById(a.file_id) # {})
    /\ [][(resp'.status = 404 /\ resp'.detail = FileNotFound)
             => UNCHANGED <<files, analyses, disk, uploads, analyzing>>]_vars

\* Analyze of an unknown id in a store that holds a file.
C6_Witness ==
    /\ resp.op = "analyze" /\ resp.status = 404 /\ resp.detail = FileNotFound
    /\ files # <<>>
    /\ FileById(resp.file_id) = {}

ListsEveryFileOnce ==
    /\ Len(resp.list) = Len(files)
    /\ \A f \in Range(files) :
          Cardinality({i \in 1..Len(resp.list) : resp.list[i] = FileListItem(f)}) = 1

\* C7 as stated: list holds every File row exactly once, and of two rows the
\* one committed later comes first, also when both have the same uploaded_at.
C7_LaterUploadFirst ==
    resp.op = "list" =>
        /\ ListsEveryFileOnce
        /\ \A i, j \in 1..Len(resp.list) : i < j => resp.list[i].id > resp.list[j].id

\* C7 as amended: list holds every File row exactly once, ordered by
\* uploaded_at descending: of two rows with different uploaded_at the one with
\* the later uploaded_at, which is the one committed later, comes first.
C7_LaterTimestampFirst ==
    resp.op = "list" =>
        /\ ListsEveryFileOnce
        /\ \A i, j \in 1..Len(resp.list) :
              LET fi == TheFile(resp.list[i].id)
                  fj == TheFile(resp.list[j].id)
              IN  /\ fi.uploaded_at > fj.uploaded_at => i < j
                  /\ (fi.id > fj.id /\ fi.uploaded_at # fj.uploaded_at) => i < j

\* A list of two versions of a file uploaded at different times.
C7_Witness ==
    /\ resp.op = "list"
    /\ Len(resp.list) = 2
    /\ resp.list[1].file_name = resp.list[2].file_name
    /\ resp.list[1].version = 2
    /\ resp.list[1].uploaded_at # resp.list[2].uploaded_at

\* The four buckets of the table, lower bounds closed.
BucketOf(size) ==
    CASE size < 10000 -> "small"
      [] 10000 <= size /\ size < 100000 -> "relatively_small"
      [] 100000 <= size /\ size < 1000000 -> "medium"
      [] size >= 1000000 -> "large"

BoundaryBuckets ==
    {<<0, "small">>, <<9999, "small">>, <<10000, "relatively_small">>,
     <<99999, "relatively_small">>, <<100000, "medium">>, <<999999, "medium">>,
     <<1000000, "large">>}

\* C8: the result of analyzing a file is the template of the bucket of its
\* size, the buckets being size < 10000, 10000 <= size < 100000,
\* 100000 <= size < 1000000 and size >= 1000000; the boundary sizes fall in
\* small, small, relatively small, relatively small, medium, medium, large,
\* whatever the file's name and version.
C8_SizeBuckets ==
    (resp.op \in {"analyze", "get_analysis"} /\ resp.status = 200) =>
        LET size == TheFile(resp.file_id).size
        IN  /\ resp.result.template = BucketOf(size)
            /\ <<size, resp.result.template>> \in BoundaryBuckets
            /\ resp.result.file_size = size
            /\ resp.result.file_name = TheFile(resp.file_id).original_name

\* The second version of a file of exactly 10000 bytes, analyzed.
C8_Witness ==
    /\ resp.op = "analyze" /\ resp.status = 200
    /\ TheFile(resp.file_id).size = 10000
    /\ TheFile(resp.file_id).version = 2
    /\ resp.result.template = "relatively_small"

\* C9: File rows are never changed or removed; the table changes only by a
\* successful upload appending one row; list, get file info, get analysis and
\* analyze leave it alone; an upload with an empty filename answers 400 and
\* leaves the rows, the blobs and the suspended handlers as they were, so no
\* upload with an empty filename gets as far as the version lookup.
C9_FilesChangeOnlyByUpload ==
    /\ [](/\ \A u \in BagToSet(uploads) : u.name # ""
          /\ \A f \in Range(files) : f.original_name # "")
    /\ [][/\ Len(files') >= Len(files)
          /\ \A i \in 1..Len(files) : files'[i] = files[i]
          /\ files' # files =>
                /\ Len(files') = Len(files) + 1
                /\ resp'.op = "upload" /\ resp'.status = 200
          /\ resp'.op \in {"list", "get_file_info", "get_analysis", "analyze"} =>
                files' = files
          /\ (resp'.op = "upload" /\ resp'.status = 400) =>
                /\ resp'.detail = NoFileSelected
                /\ UNCHANGED <<files, analyses, disk, now, uploads, analyzing>>
         ]_vars

\* An upload with no filename refused while another upload is suspended and a
\* file is stored.
C9_Witness ==
    /\ resp.op = "upload" /\ resp.status = 400
    /\ files # <<>>
    /\ uploads # EmptyBag

\* C10: distinct File rows have distinct paths, and the blob at a row's path
\* is the body sent by the upload that made the row, its length the row's size.
C10_EachRowOwnsItsBlob ==
    /\ \A i, j \in 1..Len(files) : i # j => files[i].path # files[j].path
    /\ \A f \in Range(files) :
          /\ BlobAt(f.path) = {origin[f.id]}
          /\ ByteLen(origin[f.id]) = f.size

====
